---- MODULE Spec2Model ----
(***************************************************************************)
(* Model of the bidirectional synchronisation of kitchen-fridge:           *)
(* Provider::sync (src/src/provider.rs) merging a server source and a      *)
(* local source, calendar by calendar, with the "server always wins"       *)
(* conflict rule and the last-sync watermark of the local source.          *)
(*                                                                         *)
(* The calendars and sources themselves (the traits PartialCalendar,       *)
(* CompleteCalendar, CalDavSource, SyncSlave and their implementations)    *)
(* are not part of the sources at hand; they are modelled from their       *)
(* contract in the specification (sections 3 and 4.2).                     *)
(***************************************************************************)
EXTENDS Integers, FiniteSets, Sequences, TLC

(***************************************************************************)
(* Bounds of the model.                                                    *)
(***************************************************************************)
\* The clock never runs beyond MaxTime: it bounds the explicit ticks and the
\* number of sync passes (a pass that completes advances the clock by 2).
MaxTime == 7

\* The calendars the server knows.
CalendarIds == {"c1", "c2"}
\* The item ids (urls) in use; every calendar may hold an item under each.
ItemIds == {"task"}

(***************************************************************************)
(* Option<DateTime<Utc>>: None is the empty sequence, Some(t) is <<t>>.    *)
(***************************************************************************)
None == << >>
Some(t) == << t >>
IsSome(o) == Len(o) = 1
Unwrap(o) == o[1]

(***************************************************************************)
(* Items.  An Item is identified here by who wrote this version and when:  *)
(* origin stands for the content (name, completion, ...) and lm is         *)
(* last_modified.  A calendar's items are a map ItemId -> Item, modelled   *)
(* as a function whose domain is the set of ids present.                   *)
(***************************************************************************)
Item(origin, lm) == [origin |-> origin, lm |-> lm]
EmptyItems == [i \in {} |-> Item("S", 0)]

\* A local (complete) calendar also remembers when ids were deleted.
EmptyLocalCalendar == [items |-> EmptyItems, deleted |-> [i \in {} |-> 0]]

(***************************************************************************)
(* The calendar contract (PartialCalendar / CompleteCalendar).             *)
(***************************************************************************)
\* get_item_ids() -> set of ItemId
get_item_ids(items) == DOMAIN items

\* find_deletions_from(known_ids): ids of known_ids absent from this calendar
find_deletions_from(items, known_ids) == known_ids \ DOMAIN items

\* get_items_modified_since(since, None): the items modified after `since`;
\* every item when `since` is None.  Returned as the set of their ids.
get_items_modified_since(items, since) ==
    {i \in DOMAIN items : IsSome(since) => items[i].lm > Unwrap(since)}

\* get_items_deleted_since(date): ids deleted after `date`
get_items_deleted_since(cal, date) ==
    {i \in DOMAIN cal.deleted : cal.deleted[i] > date}

\* add_item(item): insert or replace under the item's id
add_item(items, id, item) ==
    [i \in DOMAIN items \cup {id} |-> IF i = id THEN item ELSE items[i]]

\* delete_item(id) on a partial (server) calendar
delete_item(items, id) == [i \in DOMAIN items \ {id} |-> items[i]]

\* delete_item(id) on a complete (local) calendar: the deletion is dated
delete_local_item(cal, id, t) ==
    [items   |-> delete_item(cal.items, id),
     deleted |-> [i \in DOMAIN cal.deleted \cup {id} |->
                     IF i = id THEN t ELSE cal.deleted[i]]]

(***************************************************************************)
(* State.                                                                  *)
(***************************************************************************)
VARIABLES
    server,      \* server source: CalendarId -> items
    local,       \* local source: CalendarId (of the local calendars) -> calendar
    watermark,   \* the local source's last-sync time (get_last_sync)
    now,         \* the clock (Utc::now): the date given to edits and deletions
    pc,          \* where Provider::sync stands
    last_sync,   \* sync's local variable `last_sync` (line 64)
    todo,        \* calendars of cals_server the loop has not visited yet
    cur,         \* the calendar of the current loop iteration
    lockS,       \* server calendars whose mutex the sync task holds
    lockL,       \* local calendars whose mutex the sync task holds
    result,      \* what the last call of sync returned: "none", "Ok", "Err"
    pre,         \* history: the stores and watermark when the pass started
    hist,        \* history: bookkeeping of the running pass
    held,        \* calendar mutexes held by other tasks: <<"S" or "L", CalendarId>>
    waiting,     \* the mutex a task blocks the executor's thread on, if any
    input,       \* the argument of a call of ical::parser::parse or of utils::find_elem(s)
    output       \* what that call returned

vars == << server, local, watermark, now, pc, last_sync, todo, cur,
           lockS, lockL, result, pre, hist, held, waiting, input, output >>

\* what Provider::sync and the users of the calendars never touch
callVars == << input, output >>
auxVars == << held, waiting, input, output >>

\* no call of a parsing function is under way
NoCall == [fn |-> "none"]

(***************************************************************************)
(* Provider::sync, the merge of one calendar (lines 80-129), computed on   *)
(* the locked pair: srv the server calendar's items, loc the local         *)
(* calendar, ls the value of `last_sync`, t the time of the merge.         *)
(***************************************************************************)
\* Faulty variant of RemoteDeletions: the two calendars are swapped, so the
\* ids the local calendar lacks are taken for remote deletions.
RemoteDeletions_Swapped(ls, srv, loc) ==
    IF IsSome(ls) THEN find_deletions_from(loc.items, get_item_ids(srv))
                  ELSE {}

\* Faulty variant of RemoteDeletions: the first sync is not told apart.
RemoteDeletions_EvenOnFirstSync(ls, srv, loc) ==
    find_deletions_from(srv, get_item_ids(loc.items))

\* lines 81-87: ids the server no longer has (none on a first sync)
RemoteDeletions(ls, srv, loc) ==
    IF IsSome(ls) THEN find_deletions_from(srv, get_item_ids(loc.items))
                  ELSE {}

\* line 90: server_mod (its keys)
ServerMod(ls, srv) == get_items_modified_since(srv, ls)

\* lines 91-95: the ids of server_mod the loop reports as conflicts and
\* queues for removal from the local calendar; the test reads server_mod
ConflictsOfServerMod(ls, srv, loc) ==
    {new_id \in ServerMod(ls, srv) : new_id \in ServerMod(ls, srv)}

\* lines 93, 113, 122: the ids a "Conflict ... Using the server version"
\* warning is logged for; loc1 is the local calendar after line 99
ConflictWarnings(ls, srv, loc1) ==
    {new_id \in ServerMod(ls, srv) : new_id \in ServerMod(ls, srv)}
    \cup {deleted_id \in (IF IsSome(ls)
                             THEN get_items_deleted_since(loc1, Unwrap(ls))
                             ELSE {}) : deleted_id \in ServerMod(ls, srv)}
    \cup {new_id \in get_items_modified_since(loc1.items, ls) :
              new_id \in ServerMod(ls, srv)}

\* lines 81-97: tasks_id_to_remove_from_local
TasksIdToRemoveFromLocal(ls, srv, loc) ==
    RemoteDeletions(ls, srv, loc) \cup ConflictsOfServerMod(ls, srv, loc)

\* lines 89-97: tasks_to_add_to_local (ids; the items are clones of srv's)
TasksToAddToLocal(ls, srv) == ServerMod(ls, srv)

\* lines 146-151 on the local calendar: delete_item for each id
RECURSIVE remove_from_local_calendar(_, _, _)
remove_from_local_calendar(ids, loc, t) ==
    IF ids = {} THEN loc
    ELSE LET id == CHOOSE x \in ids : TRUE
         IN  remove_from_local_calendar(ids \ {id}, delete_local_item(loc, id, t), t)

\* lines 146-151 on the server calendar
RECURSIVE remove_from_calendar(_, _)
remove_from_calendar(ids, items) ==
    IF ids = {} THEN items
    ELSE LET id == CHOOSE x \in ids : TRUE
         IN  remove_from_calendar(ids \ {id}, delete_item(items, id))

\* lines 139-144: add_item for each item of the vector; `from` holds the
\* items the vector's clones were taken from
RECURSIVE move_to_calendar(_, _, _)
move_to_calendar(ids, from, items) ==
    IF ids = {} THEN items
    ELSE LET id == CHOOSE x \in ids : TRUE
         IN  move_to_calendar(ids \ {id}, from, add_item(items, id, from[id]))

\* line 99: the local calendar once the removals are applied
LocalAfterRemoval(ls, srv, loc, t) ==
    remove_from_local_calendar(TasksIdToRemoveFromLocal(ls, srv, loc), loc, t)

\* Faulty variant of LocalDel: every deletion on record, whatever its date.
LocalDel_AnyDate(ls, loc1) ==
    IF IsSome(ls) THEN DOMAIN loc1.deleted ELSE {}

\* lines 104-107: local_del, read after the removals of line 99
LocalDel(ls, loc1) ==
    IF IsSome(ls) THEN get_items_deleted_since(loc1, Unwrap(ls)) ELSE {}

\* Faulty variant of TasksIdToRemoveFromServer: the test of line 110 is
\* inverted.
TasksIdToRemoveFromServer_Inverted(ls, srv, loc1) ==
    {deleted_id \in LocalDel(ls, loc1) : deleted_id \in ServerMod(ls, srv)}

\* Faulty variant of TasksIdToRemoveFromServer: the test of line 110 is
\* missing, every local deletion is pushed.
TasksIdToRemoveFromServer_Unchecked(ls, srv, loc1) ==
    LocalDel(ls, loc1)

\* lines 108-115: tasks_id_to_remove_from_server
TasksIdToRemoveFromServer(ls, srv, loc1) ==
    {deleted_id \in LocalDel(ls, loc1) : deleted_id \notin ServerMod(ls, srv)}

\* line 117: local_mod (its keys), read after the removals of line 99
LocalMod(ls, loc1) == get_items_modified_since(loc1.items, ls)

\* lines 118-125: tasks_to_add_to_server (ids; the items are clones of loc1's)
TasksToAddToServer(ls, srv, loc1) ==
    {new_id \in LocalMod(ls, loc1) : new_id \notin ServerMod(ls, srv)}

\* lines 127-129: the three applications, in the order of the code
MergedServer(ls, srv, loc1) ==
    move_to_calendar(TasksToAddToServer(ls, srv, loc1), loc1.items,
        remove_from_calendar(TasksIdToRemoveFromServer(ls, srv, loc1), srv))

\* Faulty variant of MergedLocal: the conflicting ids are removed from the
\* local calendar after the server's items were moved into it.
MergedLocal_RemovalLast(ls, srv, loc1) ==
    [loc1 EXCEPT !.items =
        remove_from_calendar(ConflictsOfServerMod(ls, srv, loc1),
            move_to_calendar(TasksToAddToLocal(ls, srv), srv, @))]

MergedLocal(ls, srv, loc1) ==
    [loc1 EXCEPT !.items = move_to_calendar(TasksToAddToLocal(ls, srv), srv, @)]

(***************************************************************************)
(* Initial state: Provider::new(server, local) on two empty sources that   *)
(* never synced.  The server knows every calendar of CalendarIds; the      *)
(* local source holds "c1" and may or may not hold "c2".                   *)
(***************************************************************************)
LocalCalendarSets == {{"c1"}, {"c1", "c2"}}

NoSnapshot == [server |-> << >>, local |-> << >>, watermark |-> None, clean |-> FALSE,
               window |-> {}]
\* History of the epoch (since the last pass that returned Ok):
\*   clean    no edit was made on either side
\*   addedL   <<calendar, id>> added locally under an id the server does not
\*            hold, and not deleted since
\*   addedS   <<calendar, id>> added on the server under an id the local
\*            calendar does not hold, and not deleted since
\* and of the running pass:
\*   used     the watermark values the merges of the pass worked with
\*   merged   the calendars merged, skipped the calendars skipped
\*   warned   <<calendar, id>> a "Conflict ... Using the server version"
\*            warning was logged for
\*   window   the edits other tasks made to a calendar after its merge and
\*            before the watermark was written (in `pre`: those of the pass
\*            before)
NoHistory == [clean |-> FALSE, addedL |-> {}, addedS |-> {},
              used |-> {}, merged |-> {}, skipped |-> {}, warned |-> {},
              window |-> {}]

Init ==
    /\ server = [c \in CalendarIds |-> EmptyItems]
    /\ \E D \in LocalCalendarSets : local = [c \in D |-> EmptyLocalCalendar]
    /\ watermark = None
    /\ now = 1
    /\ pc = "idle"
    /\ last_sync = None
    /\ todo = {}
    /\ cur = "c1"
    /\ lockS = {}
    /\ lockL = {}
    /\ result = "none"
    /\ pre = NoSnapshot
    /\ hist = NoHistory
    /\ held = {}
    /\ waiting = None
    /\ input = NoCall
    /\ output = NoCall

(***************************************************************************)
(* The users of the two sources (a client of the cache, another client of  *)
(* the server).  They edit through the calendar contract, between passes.  *)
(***************************************************************************)
syncVars == << pc, last_sync, todo, cur, lockS, lockL, result, pre >>


\* Time passes.
Tick ==
    /\ pc = "idle"
    /\ now < MaxTime
    /\ now' = now + 1
    /\ UNCHANGED auxVars
    /\ UNCHANGED << server, local, watermark, syncVars, hist >>

\* An id deleted since the last sync is not used again before the next one
\* (ItemId: "never reused after deletion within the same sync epoch").
ReusableLocally(c, i) ==
    i \in DOMAIN local[c].deleted =>
        (IsSome(watermark) /\ local[c].deleted[i] <= Unwrap(watermark))

LocalAdd(c, i) ==
    /\ pc = "idle"
    /\ i \notin DOMAIN local[c].items
    /\ ReusableLocally(c, i)
    /\ local' = [local EXCEPT ![c].items = add_item(@, i, Item("L", now))]
    /\ hist' = [hist EXCEPT !.clean = FALSE,
                            !.addedL = IF i \in DOMAIN server[c]
                                       THEN @ ELSE @ \cup {<< c, i >>}]
    /\ UNCHANGED auxVars
    /\ UNCHANGED << server, watermark, now, syncVars >>

LocalModify(c, i) ==
    /\ pc = "idle"
    /\ i \in DOMAIN local[c].items
    /\ local' = [local EXCEPT ![c].items = add_item(@, i, Item("L", now))]
    /\ hist' = [hist EXCEPT !.clean = FALSE]
    /\ UNCHANGED auxVars
    /\ UNCHANGED << server, watermark, now, syncVars >>

LocalDelete(c, i) ==
    /\ pc = "idle"
    /\ i \in DOMAIN local[c].items
    /\ local' = [local EXCEPT ![c] = delete_local_item(@, i, now)]
    /\ hist' = [hist EXCEPT !.clean = FALSE, !.addedL = @ \ {<< c, i >>}]
    /\ UNCHANGED auxVars
    /\ UNCHANGED << server, watermark, now, syncVars >>

ServerAdd(c, i) ==
    /\ pc = "idle"
    /\ i \notin DOMAIN server[c]
    /\ server' = [server EXCEPT ![c] = add_item(@, i, Item("S", now))]
    /\ hist' = [hist EXCEPT !.clean = FALSE,
                            !.addedL = @ \ {<< c, i >>},
                            !.addedS = IF c \in DOMAIN local /\ i \notin DOMAIN local[c].items
                                       THEN @ \cup {<< c, i >>} ELSE @]
    /\ UNCHANGED auxVars
    /\ UNCHANGED << local, watermark, now, syncVars >>

ServerModify(c, i) ==
    /\ pc = "idle"
    /\ i \in DOMAIN server[c]
    /\ server' = [server EXCEPT ![c] = add_item(@, i, Item("S", now))]
    /\ hist' = [hist EXCEPT !.clean = FALSE]
    /\ UNCHANGED auxVars
    /\ UNCHANGED << local, watermark, now, syncVars >>

ServerDelete(c, i) ==
    /\ pc = "idle"
    /\ i \in DOMAIN server[c]
    /\ server' = [server EXCEPT ![c] = delete_item(@, i)]
    /\ hist' = [hist EXCEPT !.clean = FALSE, !.addedS = @ \ {<< c, i >>}]
    /\ UNCHANGED auxVars
    /\ UNCHANGED << local, watermark, now, syncVars >>

(***************************************************************************)
(* Provider::sync, step by step.                                           *)
(***************************************************************************)
\* line 64: let last_sync = self.local.get_last_sync();
SyncStart ==
    /\ pc = "idle"
    /\ now + 2 <= MaxTime
    /\ last_sync' = watermark
    /\ pc' = "get_calendars"
    /\ result' = "none"
    /\ pre' = [server |-> server, local |-> local, watermark |-> watermark,
               clean |-> hist.clean, window |-> hist.window]
    /\ hist' = [hist EXCEPT !.used = {}, !.merged = {}, !.skipped = {},
                             !.warned = {}, !.window = {}]
    /\ UNCHANGED auxVars
    /\ UNCHANGED << server, local, watermark, now, todo, cur, lockS, lockL >>

\* line 66: self.server.get_calendars().await? succeeds
GetCalendarsOk ==
    /\ pc = "get_calendars"
    /\ todo' = DOMAIN server
    /\ pc' = "loop"
    /\ UNCHANGED auxVars
    /\ UNCHANGED << server, local, watermark, now, last_sync, cur,
                    lockS, lockL, result, pre, hist >>

\* line 66: get_calendars fails and `?` returns the error
GetCalendarsErr ==
    /\ pc = "get_calendars"
    /\ result' = "Err"
    /\ pc' = "done"
    /\ UNCHANGED auxVars
    /\ UNCHANGED << server, local, watermark, now, last_sync, todo, cur,
                    lockS, lockL, pre, hist >>

\* lines 68-69: next calendar of the map (in any order), lock it
LockServerCalendar(id) ==
    /\ pc = "loop"
    /\ id \in todo
    /\ id \notin lockS /\ << "S", id >> \notin held
    /\ todo' = todo \ {id}
    /\ cur' = id
    /\ lockS' = lockS \cup {id}
    /\ pc' = "get_calendar"
    /\ UNCHANGED auxVars
    /\ UNCHANGED << server, local, watermark, now, last_sync, lockL,
                    result, pre, hist >>

\* Faulty variant of GetCalendarNone: the missing calendar ends the pass
\* with an error.
GetCalendarNone_ReturnsErr ==
    /\ pc = "get_calendar"
    /\ cur \notin DOMAIN local
    /\ lockS' = lockS \ {cur}
    /\ result' = "Err"
    /\ pc' = "done"
    /\ UNCHANGED auxVars
    /\ UNCHANGED << server, local, watermark, now, last_sync, todo, cur,
                    lockL, pre, hist >>

\* Faulty variant of GetCalendarNone: the server calendar stays locked.
GetCalendarNone_KeepsLock ==
    /\ pc = "get_calendar"
    /\ cur \notin DOMAIN local
    /\ hist' = [hist EXCEPT !.skipped = @ \cup {cur}]
    /\ pc' = "loop"
    /\ UNCHANGED auxVars
    /\ UNCHANGED << server, local, watermark, now, last_sync, todo, cur,
                    lockS, lockL, result, pre >>

\* lines 71-75: no local calendar of that id: continue (the guard is dropped)
GetCalendarNone ==
    /\ pc = "get_calendar"
    /\ cur \notin DOMAIN local
    /\ lockS' = lockS \ {cur}
    /\ hist' = [hist EXCEPT !.skipped = @ \cup {cur}]
    /\ pc' = "loop"
    /\ UNCHANGED auxVars
    /\ UNCHANGED << server, local, watermark, now, last_sync, todo, cur,
                    lockL, result, pre >>

\* lines 71-78: the local calendar exists; lock it
GetCalendarSome ==
    /\ pc = "get_calendar"
    /\ cur \in DOMAIN local
    /\ cur \notin lockL /\ << "L", cur >> \notin held
    /\ lockL' = lockL \cup {cur}
    /\ pc' = "merge"
    /\ UNCHANGED auxVars
    /\ UNCHANGED << server, local, watermark, now, last_sync, todo, cur,
                    lockS, result, pre, hist >>

\* Faulty variant of MergeCalendar: update_last_sync is called inside the
\* loop, once per merged calendar.
MergeCalendar_UpdatesLastSync ==
    /\ pc = "merge"
    /\ LET loc1 == LocalAfterRemoval(last_sync, server[cur], local[cur], now)
       IN  /\ server' = [server EXCEPT ![cur] = MergedServer(last_sync, @, loc1)]
           /\ local'  = [local EXCEPT ![cur] = MergedLocal(last_sync, server[cur], loc1)]
    /\ watermark' = Some(now + 1)
    /\ now' = now + 2
    /\ lockS' = lockS \ {cur}
    /\ lockL' = lockL \ {cur}
    /\ hist' = [hist EXCEPT !.used = @ \cup {last_sync}, !.merged = @ \cup {cur},
           !.warned = @ \cup {<< cur, i >> : i \in
               ConflictWarnings(last_sync, server[cur],
                   LocalAfterRemoval(last_sync, server[cur], local[cur], now))}]
    /\ pc' = "loop"
    /\ UNCHANGED auxVars
    /\ UNCHANGED << last_sync, todo, cur, result, pre >>

\* Faulty variant of MergeCalendar: the guard of the server calendar
\* outlives the iteration.
MergeCalendar_KeepsServerLock ==
    /\ pc = "merge"
    /\ LET loc1 == LocalAfterRemoval(last_sync, server[cur], local[cur], now)
       IN  /\ server' = [server EXCEPT ![cur] = MergedServer(last_sync, @, loc1)]
           /\ local'  = [local EXCEPT ![cur] = MergedLocal(last_sync, server[cur], loc1)]
    /\ lockL' = lockL \ {cur}
    /\ hist' = [hist EXCEPT !.used = @ \cup {last_sync}, !.merged = @ \cup {cur},
           !.warned = @ \cup {<< cur, i >> : i \in
               ConflictWarnings(last_sync, server[cur],
                   LocalAfterRemoval(last_sync, server[cur], local[cur], now))}]
    /\ pc' = "loop"
    /\ UNCHANGED auxVars
    /\ UNCHANGED << watermark, now, last_sync, todo, cur, result, pre, lockS >>

\* lines 80-130: the merge of the locked pair; both guards are dropped at
\* the end of the iteration
MergeCalendar ==
    /\ pc = "merge"
    /\ LET loc1 == LocalAfterRemoval(last_sync, server[cur], local[cur], now)
       IN  /\ server' = [server EXCEPT ![cur] = MergedServer(last_sync, @, loc1)]
           /\ local'  = [local EXCEPT ![cur] = MergedLocal(last_sync, server[cur], loc1)]
    /\ lockS' = lockS \ {cur}
    /\ lockL' = lockL \ {cur}
    /\ hist' = [hist EXCEPT !.used = @ \cup {last_sync}, !.merged = @ \cup {cur},
           !.warned = @ \cup {<< cur, i >> : i \in
               ConflictWarnings(last_sync, server[cur],
                   LocalAfterRemoval(last_sync, server[cur], local[cur], now))}]
    /\ pc' = "loop"
    /\ UNCHANGED auxVars
    /\ UNCHANGED << watermark, now, last_sync, todo, cur, result, pre >>

\* lines 132-134: update_last_sync(None) (None: now), then Ok(()).  The
\* instant written lies strictly between every earlier reading of the clock
\* and every later one, so no item or deletion is ever dated exactly at a
\* watermark.
UpdateLastSync ==
    /\ pc = "loop"
    /\ todo = {}
    /\ watermark' = Some(now + 1)
    /\ now' = now + 2
    /\ result' = "Ok"
    /\ pc' = "done"
    /\ UNCHANGED hist
    /\ UNCHANGED auxVars
    /\ UNCHANGED << server, local, last_sync, todo, cur, lockS, lockL, pre >>

\* the caller takes the result; the task is ready for the next call
SyncReturn ==
    /\ pc = "done"
    /\ pc' = "idle"
    /\ pre' = NoSnapshot
    /\ hist' = IF result = "Ok"
                THEN [NoHistory EXCEPT !.clean = TRUE, !.window = hist.window]
                ELSE [hist EXCEPT !.used = {}, !.merged = {}, !.skipped = {},
                                  !.warned = {}, !.window = {}]
    /\ UNCHANGED auxVars
    /\ UNCHANGED << server, local, watermark, now, last_sync, todo, cur,
                    lockS, lockL, result >>

Next ==
    \/ Tick
    \/ \E c \in DOMAIN local, i \in ItemIds : LocalAdd(c, i)
    \/ \E c \in DOMAIN local, i \in ItemIds : LocalModify(c, i)
    \/ \E c \in DOMAIN local, i \in ItemIds : LocalDelete(c, i)
    \/ \E c \in CalendarIds, i \in ItemIds : ServerAdd(c, i)
    \/ \E c \in CalendarIds, i \in ItemIds : ServerModify(c, i)
    \/ \E c \in CalendarIds, i \in ItemIds : ServerDelete(c, i)
    \/ SyncStart
    \/ GetCalendarsOk
    \/ GetCalendarsErr
    \/ \E id \in CalendarIds : LockServerCalendar(id)
    \/ GetCalendarNone
    \/ GetCalendarSome
    \/ MergeCalendar
    \/ UpdateLastSync
    \/ SyncReturn

Spec == Init /\ [][Next]_vars

(***************************************************************************)
(* Vocabulary of the properties.  They are stated on the state in which    *)
(* sync has returned (pc = "done"), against the snapshot `pre` taken when  *)
(* the pass started; under Spec no edit is made while a pass runs, so      *)
(* `pre` is also the state every merge of the pass started from.           *)
(***************************************************************************)
ReturnedOk  == pc = "done" /\ result = "Ok"
ReturnedErr == pc = "done" /\ result = "Err"

\* the calendars of the pass that have a local counterpart
Paired == DOMAIN pre.server \cap DOMAIN pre.local

PreServerMod(c) == get_items_modified_since(pre.server[c], pre.watermark)
PreLocalMod(c)  == get_items_modified_since(pre.local[c].items, pre.watermark)
PreLocalDel(c)  == IF IsSome(pre.watermark)
                   THEN get_items_deleted_since(pre.local[c], Unwrap(pre.watermark))
                   ELSE {}

\* both calendars of the pair hold `item` under id i
BothHold(c, i, item) ==
    /\ i \in DOMAIN server[c]      /\ server[c][i] = item
    /\ i \in DOMAIN local[c].items /\ local[c].items[i] = item

\* neither calendar of the pair holds anything under id i
NeitherHolds(c, i) ==
    i \notin DOMAIN server[c] /\ i \notin DOMAIN local[c].items

(***************************************************************************)
(* C1 -- Server wins.  For every paired calendar and every id modified on  *)
(* both sides since the watermark the pass read, once sync has returned Ok *)
(* both calendars hold the server's version of before the pass, whichever  *)
(* last_modified is the newer.                                             *)
(***************************************************************************)
C1_ServerWins ==
    ReturnedOk =>
        \A c \in Paired : \A i \in PreServerMod(c) \cap PreLocalMod(c) :
            BothHold(c, i, pre.server[c][i])

\* a conflict in a pass that had a watermark, the local edit being the newer
C1_Witness ==
    /\ ReturnedOk
    /\ IsSome(pre.watermark)
    /\ \E c \in Paired : \E i \in PreServerMod(c) \cap PreLocalMod(c) :
          /\ pre.local[c].items[i].origin = "L"
          /\ pre.local[c].items[i].lm > pre.server[c][i].lm
          /\ BothHold(c, i, pre.server[c][i])

(***************************************************************************)
(* C2 -- Additions propagate in both directions, on every pass.  An item   *)
(* added locally since the last sync under an id the server does not hold  *)
(* (and not deleted since) is in both calendars once sync has returned Ok; *)
(* an item added on the server is in the local calendar.                   *)
(***************************************************************************)
C2_AdditionsPropagate ==
    ReturnedOk =>
        /\ \A a \in hist.addedL :
              a[2] \in DOMAIN server[a[1]] /\ a[2] \in DOMAIN local[a[1]].items
        /\ \A a \in hist.addedS :
              a[1] \in DOMAIN local => a[2] \in DOMAIN local[a[1]].items

(***************************************************************************)
(* C3 -- Local deletions propagate.  With a watermark, every id deleted    *)
(* locally since the watermark and not modified on the server since is in  *)
(* neither calendar once sync has returned Ok.                             *)
(***************************************************************************)
C3_LocalDeletionPropagates ==
    (ReturnedOk /\ IsSome(pre.watermark)) =>
        \A c \in Paired : \A i \in PreLocalDel(c) \ PreServerMod(c) :
            NeitherHolds(c, i)

\* the server held the item (unmodified since the watermark) and lost it
C3_Witness ==
    /\ ReturnedOk
    /\ IsSome(pre.watermark)
    /\ \E c \in Paired : \E i \in PreLocalDel(c) \ PreServerMod(c) :
          /\ i \in DOMAIN pre.server[c]
          /\ NeitherHolds(c, i)

(***************************************************************************)
(* C4 -- Remote deletions propagate.  With a watermark, every id the local *)
(* calendar holds and the server calendar does not, when the merge starts, *)
(* is in neither calendar once sync has returned Ok, even if the local     *)
(* copy was edited since the watermark: it is not pushed back.             *)
(***************************************************************************)
C4_RemoteDeletionPropagates ==
    (ReturnedOk /\ IsSome(pre.watermark)) =>
        \A c \in Paired : \A i \in DOMAIN pre.local[c].items \ DOMAIN pre.server[c] :
            NeitherHolds(c, i)

\* the local copy had been edited since the watermark
C4_Witness ==
    /\ ReturnedOk
    /\ IsSome(pre.watermark)
    /\ \E c \in Paired : \E i \in DOMAIN pre.local[c].items \ DOMAIN pre.server[c] :
          /\ i \in PreLocalMod(c)
          /\ << c, i >> \notin hist.addedL
          /\ NeitherHolds(c, i)

(***************************************************************************)
(* C5 -- Delete/modify conflict.  An id deleted locally since the          *)
(* watermark and modified on the server since the watermark is not deleted *)
(* from the server: once sync has returned Ok the server holds its version *)
(* and the local calendar holds that version again.                        *)
(***************************************************************************)
C5_DeleteModifyConflict ==
    ReturnedOk =>
        \A c \in Paired : \A i \in PreLocalDel(c) \cap PreServerMod(c) :
            BothHold(c, i, pre.server[c][i])

\* the id was absent locally when the pass started
C5_Witness ==
    /\ ReturnedOk
    /\ \E c \in Paired : \E i \in PreLocalDel(c) \cap PreServerMod(c) :
          /\ i \notin DOMAIN pre.local[c].items
          /\ BothHold(c, i, pre.server[c][i])

(***************************************************************************)
(* C6 -- Idempotence.  A pass that starts right after a pass that returned *)
(* Ok, with no edit on either side in between, leaves every server         *)
(* calendar and every local calendar with the items the first pass left.   *)
(***************************************************************************)
LocalItems(l) == [c \in DOMAIN l |-> l[c].items]

C6_Idempotent ==
    (ReturnedOk /\ pre.clean) =>
        /\ server = pre.server
        /\ LocalItems(local) = LocalItems(pre.local)

\* the second pass ran on calendars that hold items and on a local calendar
\* in which line 99 of an earlier merge has left dated deletions
C6_Witness ==
    /\ ReturnedOk
    /\ pre.clean
    /\ IsSome(pre.watermark)
    /\ \A c \in Paired : DOMAIN server[c] # {} /\ DOMAIN local[c].items # {}
    /\ \E c \in Paired : \E i \in DOMAIN local[c].deleted :
           local[c].deleted[i] >= 2

(***************************************************************************)
(* C7 -- Watermark discipline.  The watermark is read once, when the pass  *)
(* starts, and every merge of the pass works with that value; it is        *)
(* written only by the step that follows the last calendar and returns Ok; *)
(* after Ok it is not older than before the pass, after Err it is the      *)
(* same as before the pass.                                                *)
(***************************************************************************)
C7_WatermarkState ==
    /\ pc # "idle" => (last_sync = pre.watermark /\ hist.used \subseteq {pre.watermark})
    /\ ReturnedOk =>
          /\ IsSome(watermark)
          /\ IsSome(pre.watermark) => Unwrap(watermark) >= Unwrap(pre.watermark)
    /\ ReturnedErr => watermark = pre.watermark

C7_WatermarkStep ==
    /\ last_sync' # last_sync => (pc = "idle" /\ pc' = "get_calendars")
    /\ watermark' # watermark =>
          /\ pc = "loop" /\ todo = {} /\ lockS = {} /\ lockL = {}
          /\ pc' = "done" /\ result' = "Ok"

C7_WatermarkDiscipline == [](C7_WatermarkState) /\ [][C7_WatermarkStep]_vars

\* a pass over two merged calendars that replaced an earlier watermark
C7_Witness ==
    /\ ReturnedOk
    /\ IsSome(pre.watermark)
    /\ Unwrap(watermark) > Unwrap(pre.watermark)
    /\ hist.merged = {"c1", "c2"}
    /\ hist.used = {pre.watermark}

(***************************************************************************)
(* C8 -- No partial commit.  When sync has returned Err, every server      *)
(* calendar, every local calendar and the watermark are as they were       *)
(* before the call, and no calendar was merged or even locked.             *)
(***************************************************************************)
C8_NoPartialCommit ==
    ReturnedErr =>
        /\ server = pre.server
        /\ local = pre.local
        /\ watermark = pre.watermark
        /\ hist.merged = {} /\ hist.skipped = {}
        /\ lockS = {} /\ lockL = {}

\* the failed pass had something to merge
C8_Witness ==
    /\ ReturnedErr
    /\ \E c \in Paired : PreServerMod(c) # {} /\ pre.local[c].items # pre.server[c]

(***************************************************************************)
(* C9 -- First sync.  Without a watermark no id is lost on either side:    *)
(* once sync has returned Ok both calendars of a pair hold the union of    *)
(* the ids they held, with the server's version of an id both held and     *)
(* the only version of an id one of them held.                             *)
(***************************************************************************)
C9_FirstSyncUnion ==
    (ReturnedOk /\ pre.watermark = None) =>
        \A c \in Paired :
            LET ids == DOMAIN pre.server[c] \cup DOMAIN pre.local[c].items
            IN  /\ DOMAIN server[c] = ids
                /\ DOMAIN local[c].items = ids
                /\ \A i \in ids :
                      BothHold(c, i, IF i \in DOMAIN pre.server[c]
                                     THEN pre.server[c][i]
                                     ELSE pre.local[c].items[i])

\* one pair held an id on both sides in two versions, another pair held an
\* id on the local side only
C9_Witness ==
    /\ ReturnedOk
    /\ pre.watermark = None
    /\ \E c \in Paired : \E i \in DOMAIN pre.server[c] \cap DOMAIN pre.local[c].items :
           pre.server[c][i] # pre.local[c].items[i]
    /\ \E c \in Paired : DOMAIN pre.local[c].items \ DOMAIN pre.server[c] # {}

(***************************************************************************)
(* C10 -- Missing local calendar.  A server calendar without local         *)
(* counterpart is skipped: no local calendar is created, its items are     *)
(* unchanged, its lock is released before the loop goes on, every other    *)
(* server calendar is merged, and sync returns Ok.                         *)
(***************************************************************************)
C10_MissingLocalCalendar ==
    /\ pc = "loop" => (lockS = {} /\ lockL = {})
    /\ (pc \in {"loop", "done"} /\ hist.skipped # {}) =>
          /\ DOMAIN local = DOMAIN pre.local
          /\ hist.skipped \cap DOMAIN local = {}
          /\ \A c \in hist.skipped : server[c] = pre.server[c]
    /\ (pc = "done" /\ hist.skipped # {}) =>
          /\ result = "Ok"
          /\ lockS = {} /\ lockL = {}
          /\ hist.skipped = DOMAIN pre.server \ DOMAIN pre.local
          /\ hist.merged = Paired

\* "c2" was skipped with items in it while the merge of "c1" changed "c1"
C10_Witness ==
    /\ ReturnedOk
    /\ hist.skipped = {"c2"}
    /\ DOMAIN server["c2"] # {}
    /\ hist.merged = {"c1"}
    /\ local["c1"].items # pre.local["c1"].items

(***************************************************************************)
(* ical::parser::parse(content, item_id, sync_status).  The content is     *)
(* taken as the ical reader delivers it: the result of the first           *)
(* reader.next() (None, Some(Err) or Some(Ok(calendar))), the calendar's   *)
(* numbers of VEVENT, VTODO and VJOURNAL, the properties of its first      *)
(* VTODO in the order of the payload, and the result of the second         *)
(* reader.next().                                                          *)
(***************************************************************************)
\* the most components of one kind in a calendar component
MaxCount == 2
\* the most properties of a VTODO
MaxProps == 3

Counts == 0..MaxCount

\* a property of a VTODO: name and value (Option<String>)
Property(name, value) == [name |-> name, value |-> value]

Properties ==
    {Property(n, v) : n \in {"SUMMARY"}, v \in {None, Some("n1"), Some("n2")}}
    \cup {Property(n, v) : n \in {"STATUS"},
                           v \in {None, Some("COMPLETED"), Some("NEEDS-ACTION")}}
    \cup {Property(n, v) : n \in {"UID"}, v \in {None, Some("u1")}}
    \cup {Property("DTSTAMP", Some("20210321T001600"))}

PropertyLists == UNION {[1..n -> Properties] : n \in 0..MaxProps}

\* the VTODO of EXAMPLE_ICAL (lines 106-117): its UID and its SUMMARY
ExampleTodo == << Property("UID", Some("u1")), Property("SUMMARY", Some("n1")) >>

ReaderResults == {"None", "SomeErr", "SomeOk"}
ItemIdArgs == {"id1", "id2"}
SyncStatusArgs == {"NotSynced", "Synced"}

IcalCalendar(n_events, n_todos, n_journals, properties) ==
    [n_events |-> n_events, n_todos |-> n_todos, n_journals |-> n_journals,
     properties |-> properties]

ParseInput(first, cal, rest, item_id, sync_status) ==
    [fn |-> "parse", first |-> first, cal |-> cal, rest |-> rest,
     item_id |-> item_id, sync_status |-> sync_status]

\* The payloads: every combination of counts around the VTODO of the tests,
\* and every list of properties in a calendar of one VTODO; a payload the
\* reader yields nothing or an error for has no calendar to look at.
ParseInputs ==
    {ParseInput("SomeOk", IcalCalendar(e, t, j, ExampleTodo), r, id, st) :
        e \in Counts, t \in Counts, j \in Counts, r \in ReaderResults,
        id \in ItemIdArgs, st \in SyncStatusArgs}
    \cup {ParseInput("SomeOk", IcalCalendar(0, 1, 0, ps), r, id, st) :
        ps \in PropertyLists, r \in ReaderResults,
        id \in ItemIdArgs, st \in SyncStatusArgs}
    \cup {ParseInput(f, IcalCalendar(0, 0, 0, << >>), "None", id, st) :
        f \in {"None", "SomeErr"}, id \in ItemIdArgs, st \in SyncStatusArgs}

ParseErr(msg) == [fn |-> "parse", res |-> "Err", msg |-> msg]
ParseOk(item) == [fn |-> "parse", res |-> "Ok", item |-> item]

\* Faulty variant of assert_single_type: journals are not counted.
assert_single_type_IgnoresJournals(cal) ==
    IF cal.n_events = 1
    THEN IF cal.n_todos # 0 THEN "Err" ELSE "Event"
    ELSE IF cal.n_todos = 1
         THEN IF cal.n_events # 0 THEN "Err" ELSE "Todo"
         ELSE "Err"

\* lines 79-101
assert_single_type(cal) ==
    IF cal.n_events = 1
    THEN IF cal.n_todos # 0 \/ cal.n_journals # 0 THEN "Err" ELSE "Event"
    ELSE IF cal.n_todos = 1
         THEN IF cal.n_events # 0 \/ cal.n_journals # 0 THEN "Err" ELSE "Todo"
         ELSE "Err"

\* Faulty variant of IsCompleted: the value of STATUS is not looked at.
IsCompleted_AnyStatus(prop) == prop.name = "STATUS"

\* lines 38-46: the property sets `completed`
IsCompleted(prop) ==
    prop.name = "STATUS" /\ prop.value = Some("COMPLETED")

\* lines 31-50: the loop over todo.properties from the k-th on, acc the
\* values of name, uid and completed so far
RECURSIVE TodoLoop(_, _, _)
TodoLoop(props, k, acc) ==
    IF k > Len(props) THEN acc
    ELSE LET prop == props[k]
             name == IF prop.name = "SUMMARY" THEN prop.value ELSE acc.name
             completed == IF IsCompleted(prop) THEN TRUE ELSE acc.completed
             uid == IF prop.name = "UID" THEN prop.value ELSE acc.uid
         IN  TodoLoop(props, k + 1,
                      [name |-> name, uid |-> uid, completed |-> completed])

\* Task::new_with_parameters(name, completed, uid, id, sync_status)
Task(name, completed, uid, id, sync_status) ==
    [type |-> "Task", name |-> name, completed |-> completed, uid |-> uid,
     id |-> id, sync_status |-> sync_status]

\* lines 30-62: the arm CurrentType::Todo
ParseTodo(props, item_id, sync_status) ==
    LET acc == TodoLoop(props, 1,
                        [name |-> None, uid |-> None, completed |-> FALSE])
    IN  IF ~IsSome(acc.name) THEN ParseErr("Missing name")
        ELSE IF ~IsSome(acc.uid) THEN ParseErr("Missing UID")
        ELSE ParseOk(Task(Unwrap(acc.name), acc.completed, Unwrap(acc.uid),
                          item_id, sync_status))

\* lines 15-72
parse(in) ==
    IF in.first = "None" THEN ParseErr("Invalid uCal data to parse")
    ELSE IF in.first = "SomeErr" THEN ParseErr("Unable to parse uCal data")
    ELSE LET type == assert_single_type(in.cal)
             item == IF type = "Event" THEN ParseOk([type |-> "Event"])
                     ELSE ParseTodo(in.cal.properties, in.item_id,
                                    in.sync_status)
         IN  IF type = "Err"
             THEN ParseErr("Only a single TODO or a single EVENT is supported")
             ELSE IF item.res = "Err" THEN item
             ELSE IF in.rest = "SomeOk"
                  THEN ParseErr("Parsing multiple items are not supported")
                  ELSE item

\* no Provider is at work: the state Provider::new leaves, never changed
providerVars == << server, local, watermark, now, pc, last_sync, todo, cur,
                   lockS, lockL, result, pre, hist, held, waiting >>

ProviderNew ==
    /\ server = [c \in CalendarIds |-> EmptyItems]
    /\ local = [c \in CalendarIds |-> EmptyLocalCalendar]
    /\ watermark = None
    /\ now = 1
    /\ pc = "idle"
    /\ last_sync = None
    /\ todo = {}
    /\ cur = "c1"
    /\ lockS = {}
    /\ lockL = {}
    /\ result = "none"
    /\ pre = NoSnapshot
    /\ hist = NoHistory
    /\ held = {}
    /\ waiting = None

InitParser ==
    /\ ProviderNew
    /\ input \in ParseInputs
    /\ output = NoCall

\* one call of parse
Parse ==
    /\ input.fn = "parse"
    /\ output = NoCall
    /\ output' = parse(input)
    /\ UNCHANGED input
    /\ UNCHANGED providerVars

NextParser == Parse

SpecParser == InitParser /\ [][NextParser]_vars

(***************************************************************************)
(* C11.  Parser shape rule, with the journals the code counts: parse gets  *)
(* past the shape check of the first calendar component if and only if it  *)
(* holds exactly one VEVENT, no VTODO and no VJOURNAL, or exactly one      *)
(* VTODO, no VEVENT and no VJOURNAL; for every other combination of counts *)
(* parse returns the error of the shape check, never an Item; an accepted  *)
(* VEVENT gives an Event and an accepted VTODO nothing but a Task.         *)
(***************************************************************************)
Called == input.fn = "parse" /\ output # NoCall

SingleEvent(cal) == cal.n_events = 1 /\ cal.n_todos = 0
SingleTodo(cal)  == cal.n_todos = 1 /\ cal.n_events = 0

ShapeError ==
    output.res = "Err"
    /\ output.msg = "Only a single TODO or a single EVENT is supported"

C11_ShapeRule ==
    Called /\ input.first = "SomeOk" =>
        /\ ~ShapeError <=> /\ SingleEvent(input.cal) \/ SingleTodo(input.cal)
                           /\ input.cal.n_journals = 0
        /\ output.res = "Ok" /\ output.item.type = "Event"
               => SingleEvent(input.cal)
        /\ output.res = "Ok" /\ output.item.type = "Task"
               => SingleTodo(input.cal)

\* the shape rule as the claim words it: the journals play no part
C11_ShapeRule_AsClaimed ==
    Called /\ input.first = "SomeOk" =>
        (~ShapeError <=> SingleEvent(input.cal) \/ SingleTodo(input.cal))

\* a calendar of one VEVENT and one VJOURNAL was rejected for its shape
C11_Witness ==
    /\ Called
    /\ input.first = "SomeOk"
    /\ SingleEvent(input.cal)
    /\ input.cal.n_journals = 1
    /\ ShapeError

(***************************************************************************)
(* C12.  Parser single-envelope rule: whenever anything follows the first  *)
(* calendar component, be it a component that parses cleanly or one that   *)
(* does not, parse returns an error.                                       *)
(***************************************************************************)
C12_SingleEnvelope ==
    Called /\ input.first = "SomeOk" /\ input.rest # "None"
        => output.res = "Err"

(***************************************************************************)
(* C13.  Parser VTODO mapping: for a payload of a single VTODO and nothing *)
(* else, parse returns an error if the VTODO has no SUMMARY value or no    *)
(* UID value; otherwise it returns a Task whose name is the SUMMARY value, *)
(* whose uid is the UID value, whose id and sync_status are the arguments, *)
(* and which is completed if and only if a STATUS of the VTODO is          *)
(* COMPLETED.  Where a property occurs more than once, the value of        *)
(* SUMMARY and of UID is the one of the last occurrence.                   *)
(***************************************************************************)
\* the value of the last property of that name; None when there is none
ValueOf(props, name) ==
    LET at == {k \in 1..Len(props) : props[k].name = name}
    IN  IF at = {} THEN None
        ELSE props[CHOOSE k \in at : \A l \in at : l <= k].value

StatusIsCompleted(props) ==
    \E k \in 1..Len(props) :
        props[k].name = "STATUS" /\ props[k].value = Some("COMPLETED")

SingleTodoPayload ==
    /\ input.first = "SomeOk"
    /\ SingleTodo(input.cal) /\ input.cal.n_journals = 0
    /\ input.rest = "None"

C13_TodoMapping ==
    Called /\ SingleTodoPayload =>
        LET props == input.cal.properties
            summary == ValueOf(props, "SUMMARY")
            uid == ValueOf(props, "UID")
        IN  IF ~IsSome(summary) \/ ~IsSome(uid)
            THEN output.res = "Err"
            ELSE /\ output.res = "Ok"
                 /\ output.item.type = "Task"
                 /\ output.item.name = Unwrap(summary)
                 /\ output.item.uid = Unwrap(uid)
                 /\ output.item.id = input.item_id
                 /\ output.item.sync_status = input.sync_status
                 /\ output.item.completed <=> StatusIsCompleted(props)

\* a VTODO with a STATUS other than COMPLETED gave a Task not completed
C13_Witness ==
    /\ Called
    /\ SingleTodoPayload
    /\ output.res = "Ok"
    /\ ~output.item.completed
    /\ \E k \in 1..Len(input.cal.properties) :
           input.cal.properties[k] = Property("STATUS", Some("NEEDS-ACTION"))

(***************************************************************************)
(* utils::find_elems and utils::find_elem on an XML tree.  The elements of *)
(* a tree are numbered 1..n, the root is 1, parent[k] < k is the parent of *)
(* element k, and the children of an element come in the order of their    *)
(* numbers.                                                                *)
(***************************************************************************)
\* the most elements of a tree
MaxElems == 4

ElemNames == {"a", "b"}

Element(n, parent, name) == [n |-> n, parent |-> parent, name |-> name]

Elements ==
    UNION {{Element(n, p, nm) :
               p \in {q \in [1..n -> 0..(n - 1)] :
                         q[1] = 0 /\ \A k \in 2..n : q[k] >= 1 /\ q[k] < k},
               nm \in [1..n -> ElemNames]} : n \in 1..MaxElems}

\* el.children() of element el of tree t, from number k on
RECURSIVE children(_, _, _)
children(t, el, k) ==
    IF k > t.n THEN << >>
    ELSE (IF t.parent[k] = el THEN << k >> ELSE << >>) \o children(t, el, k + 1)

\* lines 11-25: find_elems(root, searched_name), els the children of root
\* still to visit
RECURSIVE find_elems_loop(_, _, _)
find_elems_loop(t, els, searched_name) ==
    IF els = << >> THEN << >>
    ELSE LET el == Head(els)
         IN  (IF t.name[el] = searched_name
              THEN << el >>
              ELSE find_elems_loop(t, children(t, el, 1), searched_name))
             \o find_elems_loop(t, Tail(els), searched_name)

find_elems(t, root, searched_name) ==
    find_elems_loop(t, children(t, root, 1), searched_name)

\* lines 27-45: find_elem(root, searched_name); find_elem_loop is its loop
\* over the children of root still to visit
RECURSIVE find_elem(_, _, _)
RECURSIVE find_elem_loop(_, _, _)
find_elem_loop(t, els, searched_name) ==
    IF els = << >> THEN None
    ELSE LET el == Head(els)
         IN  IF t.name[el] = searched_name THEN Some(el)
             ELSE LET ret == find_elem(t, el, searched_name)
                  IN  IF IsSome(ret) THEN ret
                      ELSE find_elem_loop(t, Tail(els), searched_name)

find_elem(t, root, searched_name) ==
    IF t.name[root] = searched_name THEN Some(root)
    ELSE find_elem_loop(t, children(t, root, 1), searched_name)

FindInput(fn, t, searched_name) ==
    [fn |-> fn, root |-> t, searched_name |-> searched_name]

InitXml ==
    /\ ProviderNew
    /\ input \in {FindInput(fn, t, s) : fn \in {"find_elems", "find_elem"},
                                        t \in Elements, s \in ElemNames}
    /\ output = NoCall

\* one call of find_elems on the root of the tree
FindElems ==
    /\ input.fn = "find_elems"
    /\ output = NoCall
    /\ output' = [fn |-> "find_elems",
                  elems |-> find_elems(input.root, 1, input.searched_name)]
    /\ UNCHANGED input
    /\ UNCHANGED providerVars

\* one call of find_elem on the root of the tree
FindElem ==
    /\ input.fn = "find_elem"
    /\ output = NoCall
    /\ output' = [fn |-> "find_elem",
                  elem |-> find_elem(input.root, 1, input.searched_name)]
    /\ UNCHANGED input
    /\ UNCHANGED providerVars

NextXml ==
    \/ FindElems
    \/ FindElem

SpecXml == InitXml /\ [][NextXml]_vars

(***************************************************************************)
(* C14.  find_elems returns every element of the tree that has the         *)
(* searched name, each exactly once, those nested in an element of the     *)
(* same name included; find_elem returns Some exactly when some element of *)
(* the tree, the root included, has the name.                              *)
(***************************************************************************)
Named(t, name) == {el \in 1..t.n : t.name[el] = name}

FindElemsReturnsAll ==
    output # NoCall /\ input.fn = "find_elems" =>
        /\ {output.elems[k] : k \in 1..Len(output.elems)}
               = Named(input.root, input.searched_name)
        /\ \A k, l \in 1..Len(output.elems) :
               output.elems[k] = output.elems[l] => k = l

FindElemFindsSome ==
    output # NoCall /\ input.fn = "find_elem" =>
        (IsSome(output.elem) <=> Named(input.root, input.searched_name) # {})

C14_FindsEveryElement == FindElemsReturnsAll /\ FindElemFindsSome

(***************************************************************************)
(* C15.  No suspension under a lock: wherever sync is suspended at an      *)
(* await (on server.get_calendars, line 66, or on local.get_calendar, line *)
(* 71) it holds no calendar lock, neither a server calendar's nor a local  *)
(* calendar's.                                                             *)
(***************************************************************************)
AtAwait == pc \in {"get_calendars", "get_calendar"}

C15_NoSuspensionUnderLock ==
    AtAwait => lockS = {} /\ lockL = {}

(***************************************************************************)
(* C16.  Lock discipline: sync holds at most one server lock and at most   *)
(* one local lock, both of the calendar being merged; the local lock is    *)
(* taken only while the server lock of the same calendar is held, both are *)
(* held throughout the merge, and a lock of the next calendar is taken     *)
(* only when sync holds none.                                              *)
(***************************************************************************)
C16_LockState ==
    /\ Cardinality(lockS) <= 1
    /\ Cardinality(lockL) <= 1
    /\ lockL \subseteq lockS
    /\ lockS \subseteq {cur}
    /\ pc = "merge" => lockS = {cur} /\ lockL = {cur}
    /\ pc \in {"idle", "done"} => lockS = {} /\ lockL = {}

C16_LockStep ==
    /\ lockS' \ lockS # {} => lockS = {} /\ lockL = {}
    /\ lockL' \ lockL # {} => lockL' \ lockL \subseteq lockS /\ lockS' = lockS

C16_LockDiscipline == [](C16_LockState) /\ [][C16_LockStep]_vars

\* the second calendar of a pass is being merged under both of its locks,
\* the first one merged and released
C16_Witness ==
    /\ pc = "merge"
    /\ hist.merged # {}
    /\ cur \notin hist.merged
    /\ lockS = {cur} /\ lockL = {cur}

(***************************************************************************)
(* Other tasks and the calendars' mutexes.  Each of them locks one         *)
(* calendar at a time and releases it.  A task that runs on a thread of    *)
(* its own waits for a mutex without hindering anyone.  A task of the      *)
(* executor's thread that sync runs on is polled only while sync is        *)
(* suspended at an await; when it calls lock() on a mutex that is held,    *)
(* std::sync::Mutex blocks the thread, and no task of that thread, sync    *)
(* included, is polled until the lock is acquired.  Where another task     *)
(* holds the mutex this is a delay that ends; where sync holds it, it is   *)
(* the step OtherBlocksThread.                                             *)
(***************************************************************************)
\* the most other tasks that hold or wait for a mutex at once
MaxOthers == 2

Mutexes == {"S", "L"} \X CalendarIds

HeldBySync(l) == IF l[1] = "S" THEN l[2] \in lockS ELSE l[2] \in lockL

OthersAtWork == Cardinality(held) + Len(waiting)

ThreadFree == waiting = None

\* a task locks a free calendar
OtherLock(l) ==
    /\ OthersAtWork < MaxOthers
    /\ l \notin held
    /\ ~HeldBySync(l)
    /\ held' = held \cup {l}
    /\ UNCHANGED << server, local, watermark, now, syncVars, hist, waiting,
                    callVars >>

\* a task is done with its calendar
OtherUnlock(l) ==
    /\ l \in held
    /\ held' = held \ {l}
    /\ UNCHANGED << server, local, watermark, now, syncVars, hist, waiting,
                    callVars >>

\* sync is suspended at an await; a task of its thread is polled and calls
\* lock() on a calendar that sync holds: the thread blocks
OtherBlocksThread(l) ==
    /\ ThreadFree
    /\ AtAwait
    /\ OthersAtWork < MaxOthers
    /\ HeldBySync(l)
    /\ waiting' = Some(l)
    /\ UNCHANGED << server, local, watermark, now, syncVars, hist, held,
                    callVars >>

NextLive ==
    \/ ThreadFree /\ SyncStart
    \/ ThreadFree /\ GetCalendarsOk
    \/ ThreadFree /\ GetCalendarsErr
    \/ ThreadFree /\ \E id \in CalendarIds : LockServerCalendar(id)
    \/ ThreadFree /\ GetCalendarNone
    \/ ThreadFree /\ GetCalendarSome
    \/ ThreadFree /\ MergeCalendar
    \/ ThreadFree /\ UpdateLastSync
    \/ ThreadFree /\ SyncReturn
    \/ \E l \in Mutexes : OtherLock(l)
    \/ \E l \in Mutexes : OtherUnlock(l)
    \/ \E l \in Mutexes : OtherBlocksThread(l)

\* The executor polls a task that can go on, a mutex that is free again and
\* again is acquired in the end, and every other task releases its mutex.
FairLive ==
    /\ SF_vars(ThreadFree /\ (GetCalendarsOk \/ GetCalendarsErr))
    /\ SF_vars(ThreadFree /\ \E id \in CalendarIds : LockServerCalendar(id))
    /\ SF_vars(ThreadFree /\ GetCalendarNone)
    /\ SF_vars(ThreadFree /\ GetCalendarSome)
    /\ SF_vars(ThreadFree /\ MergeCalendar)
    /\ SF_vars(ThreadFree /\ UpdateLastSync)
    /\ \A l \in Mutexes : WF_vars(OtherUnlock(l))

SpecLive == Init /\ [][NextLive]_vars /\ FairLive

(***************************************************************************)
(* C17.  Deadlock freedom and completion: with other tasks that each lock  *)
(* at most one calendar at a time and release it in the end, every call of *)
(* Provider::sync returns in the end, Ok or Err.                           *)
(***************************************************************************)
C17_SyncCompletes == (pc = "get_calendars") ~> (pc = "done")

(***************************************************************************)
(* Edits of other tasks while a pass runs.  A task edits a calendar under  *)
(* its mutex, here after the merge of that calendar released it and before *)
(* the pass writes the watermark.  Time has passed since the pass started, *)
(* and the watermark is written later still.                               *)
(***************************************************************************)
InWindow(c) ==
    /\ pc \in {"loop", "get_calendar", "merge"}
    /\ c \in hist.merged
    /\ c \notin lockS /\ c \notin lockL

WindowEdit(side, c, i, item) == [side |-> side, c |-> c, i |-> i, item |-> item]

\* the window with one more edit: the latest edit of an item replaces the
\* earlier one of the same side; edits of both sides leave a mark only
Windowed(window, side, c, i, item) ==
    LET same == {w \in window : w.c = c /\ w.i = i}
    IN  (window \ same)
        \cup {IF \A w \in same : w.side = side
              THEN WindowEdit(side, c, i, item)
              ELSE WindowEdit("both", c, i, item)}

ConcurrentServerModify(c, i) ==
    /\ InWindow(c)
    /\ i \in DOMAIN server[c]
    /\ now + 3 <= MaxTime
    /\ now' = now + 1
    /\ server' = [server EXCEPT ![c] = add_item(@, i, Item("S", now + 1))]
    /\ hist' = [hist EXCEPT !.clean = FALSE,
           !.window = Windowed(@, "S", c, i, Item("S", now + 1))]
    /\ UNCHANGED auxVars
    /\ UNCHANGED << local, watermark, syncVars >>

ConcurrentLocalModify(c, i) ==
    /\ InWindow(c)
    /\ i \in DOMAIN local[c].items
    /\ now + 3 <= MaxTime
    /\ now' = now + 1
    /\ local' = [local EXCEPT ![c].items = add_item(@, i, Item("L", now + 1))]
    /\ hist' = [hist EXCEPT !.clean = FALSE,
           !.window = Windowed(@, "L", c, i, Item("L", now + 1))]
    /\ UNCHANGED auxVars
    /\ UNCHANGED << server, watermark, syncVars >>

NextConc ==
    \/ \E c \in DOMAIN local, i \in ItemIds : LocalAdd(c, i)
    \/ \E c \in CalendarIds, i \in ItemIds : ServerAdd(c, i)
    \/ \E c \in DOMAIN local, i \in ItemIds : ConcurrentLocalModify(c, i)
    \/ \E c \in DOMAIN local, i \in ItemIds : ConcurrentServerModify(c, i)
    \/ SyncStart
    \/ GetCalendarsOk
    \/ GetCalendarsErr
    \/ \E id \in CalendarIds : LockServerCalendar(id)
    \/ GetCalendarNone
    \/ GetCalendarSome
    \/ MergeCalendar
    \/ UpdateLastSync
    \/ SyncReturn

SpecConc == Init /\ [][NextConc]_vars

(***************************************************************************)
(* C18.  No lost concurrent edit: an edit another task made to a calendar  *)
(* during a pass, after the merge of that calendar and before the          *)
(* watermark was written, is propagated by the next pass that returns Ok:  *)
(* when that pass (itself free of concurrent edits) has returned, both     *)
(* calendars hold the edited item.                                         *)
(***************************************************************************)
\* the edit is still in place on its side when the next pass starts
InPlaceAtStart(w) ==
    \/ /\ w.side = "S"
       /\ w.i \in DOMAIN pre.server[w.c]
       /\ pre.server[w.c][w.i] = w.item
    \/ /\ w.side = "L"
       /\ w.i \in DOMAIN pre.local[w.c].items
       /\ pre.local[w.c].items[w.i] = w.item

C18_NoLostConcurrentEdit ==
    ReturnedOk /\ hist.window = {} =>
        \A w \in pre.window :
            w.c \in hist.merged /\ InPlaceAtStart(w)
                => BothHold(w.c, w.i, w.item)

(***************************************************************************)
(* C19.  Convergence: after any sequence of local edits, server edits      *)
(* (each stamped after the watermark current when it is made) and passes,  *)
(* when the last operation is a pass that returned Ok and no edit was made *)
(* while it ran, every server calendar and its local calendar hold the     *)
(* same ids and under each id the same item.  Earlier passes may have had  *)
(* edits of other tasks while they ran.                                    *)
(***************************************************************************)
\* no other task edited a calendar while the pass ran
NoConcurrentEdit == hist.window = {}

C19_Convergence ==
    ReturnedOk /\ NoConcurrentEdit =>
        \A c \in Paired : server[c] = local[c].items

(***************************************************************************)
(* C20.  Conflict warnings mark real conflicts only: when a pass has       *)
(* returned Ok, every id a "Conflict ... Using the server version" warning *)
(* was logged for was modified on the server since the watermark and also  *)
(* modified or deleted locally since the watermark.                        *)
(***************************************************************************)
RealConflict(c, i) ==
    /\ i \in PreServerMod(c)
    /\ i \in PreLocalMod(c) \cup PreLocalDel(c)

C20_WarningsAreConflicts ==
    ReturnedOk => \A w \in hist.warned : RealConflict(w[1], w[2])
====
